---- MODULE Spec2Model ----
(***************************************************************************)
(* meetsync-backend: the time-poll state machine of one hangout           *)
(* (app/data_accessor.py) over the storage tables it reads and writes.    *)
(*                                                                         *)
(* One hangout is modelled, as left by new_hangout/invite_users: the      *)
(* creator is an accepted participant, every invitee a pending one.       *)
(* Spec      : every handler runs atomically (sequential calls); the      *)
(*             hangout has one invitee, the third user is in no hangout.  *)
(* SpecPoll  : create_poll alone, over the full range of option lists.    *)
(* SpecConc  : two requests interleave at single storage reads/writes;    *)
(*             the hangout has two invitees.                              *)
(***************************************************************************)
EXTENDS Integers, Sequences, FiniteSets, TLC

VARIABLES
    hangout,          \* the row of table hangouts
    participants,     \* table hangout_participants: user_id -> row
    meetup_options,   \* table meetup_options: sequence of rows, id = index
    meetup_votes,     \* table meetup_votes: <<user_id, option_id>> -> number of rows
    notifications,    \* table notifications: <<user_id, type>> -> number of rows
    recommendations,  \* table place_recommendations: sequence of rows
    result,           \* the last call: operation, what it returned or raised, and
                      \* (history) whether it wrote a vote row that was there already
    first_poll,       \* history: the rows inserted by the first inserting create_poll
    resolved_count,   \* history: number of writes of the winner to the hangout
    algo_count,       \* history: number of runs of start_algo
    procs             \* SpecConc: per request its position and locals

vars == <<hangout, participants, meetup_options, meetup_votes, notifications,
          recommendations, result, first_poll, resolved_count, algo_count, procs>>

tables == <<hangout, participants, meetup_options, meetup_votes, notifications,
            recommendations>>

-----------------------------------------------------------------------------
(* Bounds of the model *)

\* well-formed option strings a create_poll list is drawn from (SpecPoll)
NumOptionStrings == 6
\* start_algo runs after which submit_time_confirmation is no longer called
MaxAlgoRuns == 2

-----------------------------------------------------------------------------
(* custom_types.py *)

INVITES_SENT == "invites_sent"
FETCHING_AVAILABILITY == "fetching-availability"
DETERMINING_LOCATION == "determining-location"
CONFIRM_TIME == "confirm-time"

PENDING == "pending"
ACCEPTED == "accepted"
DECLINED == "declined"

PENDING_TIME_INPUT == "pending-time-input"
SUBMITTED_TIME_INPUT == "submitted-time-input"
PENDING_TIME_VOTE == "pending-time-vote"
SUBMITTED_TIME_VOTE == "submitted-time-vote"
PENDING_LOCATION_VOTE == "pending-location-vote"
PENDING_CONFIRM_TIME == "pending-confirm-time"
SUBMITTED_CONFIRM_TIME == "submitted-confirm-time"

SELECT_AVAILABILITY == "select-availability"
NOTIF_CONFIRM_TIME == "confirm-time"

\* a null column / Python None
NULL == "null"

-----------------------------------------------------------------------------
(* The hangout as new_hangout and invite_users leave it *)

\* table users: the creator of the hangout and two more users
creator_id == "creator"
Users == { creator_id, "ann", "bob" }

NotificationTypes == {SELECT_AVAILABILITY, NOTIF_CONFIRM_TIME}

\* new_hangout: the inserted hangouts row (scheduled_* columns default to null)
new_hangout(invitee_ids) ==
    [ creator_id |-> creator_id,
      invitee_ids |-> invitee_ids,
      status |-> INVITES_SENT,
      scheduled_date |-> NULL,
      scheduled_start_time |-> NULL,
      scheduled_end_time |-> NULL,
      scheduled_time |-> NULL ]

\* invite_users: one pending row per invitee, one accepted row for the creator
invite_users(invitee_ids) ==
    [ u \in {creator_id} \cup invitee_ids |->
        IF u = creator_id
        THEN [ status |-> ACCEPTED, flowStatus |-> PENDING_TIME_INPUT,
               start_address |-> NULL, transport |-> NULL, travel_time |-> NULL ]
        ELSE [ status |-> PENDING, flowStatus |-> NULL,
               start_address |-> NULL, transport |-> NULL, travel_time |-> NULL ] ]

-----------------------------------------------------------------------------
(* Option strings "day,start,end": sequences of characters, "," separating *)

COMMA == ","

\* option string number i: "<i>,9,10"
OptionString(i) == << "d", ToString(i), COMMA, "9", COMMA, "1", "0" >>
\* an option string with two fields only: "0,9"
MalformedOption == << "d", "0", COMMA, "9" >>

RECURSIVE split(_)
\* str.split(","): the fields of s
split(s) ==
    IF \A i \in 1..Len(s) : s[i] # COMMA
    THEN << s >>
    ELSE LET k == CHOOSE i \in 1..Len(s) :
                      s[i] = COMMA /\ \A j \in 1..(i - 1) : s[j] # COMMA
         IN  << SubSeq(s, 1, k - 1) >> \o split(SubSeq(s, k + 1, Len(s)))

\* create_poll: day, start_time, end_time = option.split(",") raises ValueError
\* unless there are exactly three fields
unpacks(option) == Len(split(option)) = 3

\* create_poll: the row built from one option
insertData(option) ==
    LET f == split(option)
    IN  [ selected_day |-> f[1], start_time |-> f[2], end_time |-> f[3] ]

-----------------------------------------------------------------------------
(* Storage operations used by the handlers *)

\* what a call returned ("<status> <message>", "return None") or raised
Response(op, resp) == [ op |-> op, resp |-> resp, recast |-> FALSE ]

\* the same for a vote() that upserted the rows data into votes
VoteResponse(resp, votes, data) ==
    [ op |-> "vote", resp |-> resp, recast |-> (data \cap { k \in DOMAIN votes : votes[k] > 0 }) # {} ]

\* .insert(rows) into a table counted per key: one more row per key
insert(table, keys) ==
    [ k \in DOMAIN table |-> IF k \in keys THEN table[k] + 1 ELSE table[k] ]

\* an upsert that appends, as on a table without the composite key
upsert_appends(table, keys) ==
    [ k \in DOMAIN table |-> IF k \in keys THEN table[k] + 1 ELSE table[k] ]

\* .upsert(rows): the row of a key that is present is overwritten, a key that
\* is absent gets one row (meetup_votes is keyed by user and option)
upsert(table, keys) ==
    [ k \in DOMAIN table |-> IF k \in keys THEN 1 ELSE table[k] ]

\* the keys a table holds at least one row of
rows(table) == { k \in DOMAIN table : table[k] > 0 }

\* vote: unique_users = set(user_id of every row of meetup_votes)
unique_users(votes) == { k[1] : k \in rows(votes) }

\* a bulk notification that leaves the sender out and notifies the others
bulk_to_others(table, sender, receivers, noti_type) ==
    IF receivers = {} THEN [ raised |-> "InvalidUser", table |-> table ]
    ELSE [ raised |-> NULL,
           table |-> insert(table, { <<r, noti_type>> : r \in receivers \ {sender} }) ]

\* send_notification_bulk: raises on no receiver or on the sender among the
\* receivers, else inserts one row per receiver
send_notification_bulk(table, sender, receivers, noti_type) ==
    IF receivers = {} THEN [ raised |-> "InvalidUser", table |-> table ]
    ELSE IF sender \in receivers THEN [ raised |-> "ValueError", table |-> table ]
    ELSE [ raised |-> NULL,
           table |-> insert(table, { <<r, noti_type>> : r \in receivers }) ]

-----------------------------------------------------------------------------
(* create_poll *)

\* create_poll: more than this many distinct options raise ValueError
MaxPollOptions == 5

RECURSIVE dedupe(_)
dedupe(options) ==
    IF options = << >> THEN << >>
    ELSE LET rest == dedupe(SubSeq(options, 1, Len(options) - 1))
             last == options[Len(options)]
         IN  IF \E i \in 1..Len(rest) : rest[i] = last THEN rest
             ELSE Append(rest, last)

\* the option list as passed, duplicates kept
all_options(options) == options

\* unique_options = set(options), listed in order of first occurrence
unique_options(options) == dedupe(options)

\* an existence check that never finds a row
poll_not_found(options_table) == Len(options_table) < 0

\* check_response: the hangout has option rows already
poll_exists(options_table) == Len(options_table) > 0

\* outcomes of the storage and notifier calls create_poll makes
PollIO == { "ok", "lookup-fails", "notify-fails", "empty-insert-raises" }

\* the response of a create_poll call, with the list it was called with
PollResponse(options, resp) ==
    [ op |-> "create_poll", resp |-> resp, recast |-> FALSE, options |-> options ]

create_poll(options, io) ==
    LET uniq == unique_options(options)
        data == [ i \in 1..Len(uniq) |-> insertData(uniq[i]) ]
        notif == send_notification_bulk(notifications, hangout.creator_id,
                                        hangout.invitee_ids, SELECT_AVAILABILITY)
        stored == /\ meetup_options' = meetup_options \o data
                  /\ first_poll' = IF first_poll = << >> THEN data ELSE first_poll
    IN
    /\ UNCHANGED <<hangout, meetup_votes, recommendations, resolved_count,
                   algo_count, procs>>
    /\ IF Len(uniq) > MaxPollOptions
       THEN /\ result' = PollResponse(options, "raise ValueError")
            /\ UNCHANGED <<meetup_options, first_poll, notifications, participants>>
       ELSE IF \E i \in 1..Len(uniq) : ~unpacks(uniq[i])
       THEN /\ result' = PollResponse(options, "raise UnexpectedError")
            /\ UNCHANGED <<meetup_options, first_poll, notifications, participants>>
       ELSE IF poll_exists(meetup_options)
       THEN /\ result' = PollResponse(options, "500 poll already exists")
            /\ UNCHANGED <<meetup_options, first_poll, notifications, participants>>
       ELSE IF data = << >>
       THEN \* insert([]) : the storage raises, or answers with no row and the
            \* handler falls off its end
            /\ result' = PollResponse(options,
                            IF io = "empty-insert-raises"
                            THEN "raise UnexpectedError" ELSE "return None")
            /\ UNCHANGED <<meetup_options, first_poll, notifications, participants>>
       ELSE IF io = "lookup-fails" \/ io = "notify-fails" \/ notif.raised # NULL
       THEN /\ stored
            /\ result' = PollResponse(options, "raise UnexpectedError")
            /\ UNCHANGED <<notifications, participants>>
       ELSE /\ stored
            /\ notifications' = notif.table
            /\ IF hangout.creator_id \in DOMAIN participants
               THEN /\ participants' =
                        [ participants EXCEPT
                            ![hangout.creator_id].flowStatus = SUBMITTED_TIME_INPUT ]
                    /\ result' = PollResponse(options, "200 created poll")
               ELSE /\ UNCHANGED participants
                    /\ result' = PollResponse(options, "500 status not updated")

-----------------------------------------------------------------------------
(* respond_to_invite, check_for_pending *)

\* a check that advances the hangout whether or not a row is pending
advance_unchecked(h, parts) == [ h EXCEPT !.status = FETCHING_AVAILABILITY ]

\* check_for_pending: no pending row left => fetching-availability
check_for_pending(h, parts) ==
    IF \E u \in DOMAIN parts : parts[u].status = PENDING
    THEN h
    ELSE [ h EXCEPT !.status = FETCHING_AVAILABILITY ]

respond_to_invite(user_id, status) ==
    /\ UNCHANGED <<meetup_options, meetup_votes, notifications, recommendations,
                   first_poll, resolved_count, algo_count, procs>>
    /\ IF status # ACCEPTED
       THEN \* the local flowStatus is unbound ("flowStaus = None"): NameError
            /\ result' = Response("respond_to_invite", "raise UnexpectedError")
            /\ UNCHANGED <<hangout, participants>>
       ELSE IF user_id \in DOMAIN participants
       THEN LET parts == [ participants EXCEPT
                             ![user_id].status = status,
                             ![user_id].flowStatus = PENDING_TIME_VOTE ]
            IN  /\ participants' = parts
                /\ hangout' = check_for_pending(hangout, parts)
                /\ result' = Response("respond_to_invite", "200 updated the invite")
       ELSE /\ result' = Response("respond_to_invite", "404 invite not found")
            /\ UNCHANGED <<hangout, participants>>

-----------------------------------------------------------------------------
(* vote, check_if_vote_is_concluded, set_scheduled_time *)

\* a conclusion test that reads the hangout's status instead of scheduled_time
concluded_by_status(h) == h.status = CONFIRM_TIME

\* check_if_vote_is_concluded: scheduled_time is not None
check_if_vote_is_concluded(h) == h.scheduled_time # NULL

\* an option id no option row has
BadOptionId == MaxPollOptions + 1
OptionIds == 1..BadOptionId

\* flattened_options: the ids of the hangout's option rows
flattened_options(options_table) == 1..Len(options_table)

\* vote: "for option_id in flattened_options: if option_id not in
\* flattened_options: return 500 Invalid voting option" (the loop runs over the
\* stored ids, not over option_ids)
invalid_option(option_ids, flattened) ==
    \E option_id \in flattened : option_id \notin flattened

\* rpc get_vote_winner: the rows of the options with the most votes; a tie is
\* broken by the view's row order, which the call does not fix
get_vote_winner(options_table, votes) ==
    LET ids == flattened_options(options_table)
        count(i) == Cardinality({ k \in rows(votes) : k[2] = i })
    IN  { i \in ids : \A j \in ids : count(i) >= count(j) }

\* an update that writes the start time into the end-time column too
scheduled_without_end(h, option) ==
    [ h EXCEPT !.scheduled_date = option.selected_day,
               !.scheduled_start_time = option.start_time,
               !.scheduled_end_time = option.start_time,
               !.scheduled_time = << option.selected_day, option.start_time >>,
               !.status = CONFIRM_TIME ]

\* set_scheduled_time: the update of the hangouts row with the winning option
scheduled(h, option) ==
    [ h EXCEPT !.scheduled_date = option.selected_day,
               !.scheduled_start_time = option.start_time,
               !.scheduled_end_time = option.end_time,
               !.scheduled_time = << option.selected_day, option.start_time >>,
               !.status = CONFIRM_TIME ]

\* an update of flowStatus on every row of the hangout (.eq("hangout_id") only)
update_all_flow(parts, flowStatus) ==
    [ u \in DOMAIN parts |-> [ parts[u] EXCEPT !.flowStatus = flowStatus ] ]

\* vote: the completion test "len(unique_users) == len(invitees)"
all_voted(votes, h) ==
    Cardinality(unique_users(votes)) = Cardinality(h.invitee_ids)

\* sets of option ids a vote is cast for
VoteInputs == { {1}, {BadOptionId} }

\* fk: the storage rejects a vote row whose option_id names no option row
vote(user_id, option_ids, fk) ==
    LET data == { <<user_id, o>> : o \in option_ids }
        flattened == flattened_options(meetup_options)
        votes1 == upsert(meetup_votes, data)
        parts1 == [ participants EXCEPT ![user_id].flowStatus = SUBMITTED_TIME_VOTE ]
        winners == get_vote_winner(meetup_options, votes1)
        notif == send_notification_bulk(notifications, hangout.creator_id,
                                        hangout.invitee_ids, NOTIF_CONFIRM_TIME)
    IN
    /\ UNCHANGED <<meetup_options, recommendations, first_poll, algo_count, procs>>
    /\ IF check_if_vote_is_concluded(hangout)
       THEN /\ result' = Response("vote", "500 poll is concluded")
            /\ UNCHANGED <<hangout, participants, meetup_votes, notifications,
                           resolved_count>>
       ELSE IF invalid_option(option_ids, flattened)
       THEN /\ result' = Response("vote", "500 invalid voting option")
            /\ UNCHANGED <<hangout, participants, meetup_votes, notifications,
                           resolved_count>>
       ELSE IF fk /\ ~(option_ids \subseteq flattened)
       THEN /\ result' = Response("vote", "raise UnexpectedError")
            /\ UNCHANGED <<hangout, participants, meetup_votes, notifications,
                           resolved_count>>
       ELSE
         /\ meetup_votes' = votes1
         /\ IF user_id \notin DOMAIN participants
            THEN /\ result' = VoteResponse("500 status not updated", meetup_votes, data)
                 /\ UNCHANGED <<hangout, participants, notifications, resolved_count>>
            ELSE IF ~all_voted(votes1, hangout)
            THEN /\ participants' = parts1
                 /\ result' = VoteResponse("200 added your vote", meetup_votes, data)
                 /\ UNCHANGED <<hangout, notifications, resolved_count>>
            ELSE IF winners = {}
            THEN \* set_scheduled_time: winning_time_repsponse.data[0] on no row
                 /\ participants' = parts1
                 /\ result' = VoteResponse("raise UnexpectedError", meetup_votes, data)
                 /\ UNCHANGED <<hangout, notifications, resolved_count>>
            ELSE \E w \in winners :
                 /\ hangout' = scheduled(hangout, meetup_options[w])
                 /\ resolved_count' = resolved_count + 1
                 /\ participants' = update_all_flow(parts1, PENDING_CONFIRM_TIME)
                 /\ notifications' = notif.table
                 /\ result' = VoteResponse(
                                 IF notif.raised # NULL THEN "raise UnexpectedError"
                                 ELSE "200 added your vote", meetup_votes, data)

-----------------------------------------------------------------------------
(* submit_time_confirmation, check_all_submitted, start_algo *)

\* check_all_submitted, first query: the rows with status accepted
accepted_rows(parts) == { u \in DOMAIN parts : parts[u].status = ACCEPTED }

\* check_all_submitted, second query: the rows with the flow status
flow_rows(parts, flowStatus) == { u \in DOMAIN parts : parts[u].flowStatus = flowStatus }

\* check_all_submitted: both results non-empty and of equal length
same_length(hangout_participants, participants_submitted) ==
    /\ hangout_participants # {}
    /\ participants_submitted # {}
    /\ Cardinality(hangout_participants) = Cardinality(participants_submitted)

check_all_submitted(parts, flowStatus) ==
    same_length(accepted_rows(parts), flow_rows(parts, flowStatus))

\* the members of custom_types.NotificationType
NotificationTypeMembers ==
    { "HANGOUT_INVITE", "FRIEND_REQUEST", "GENERAL", "SELECT_AVAILABILITY",
      "SELECT_PLACRES", "CONFIRM_MEETUP", "CONFIRM_TIME" }

\* what the caller passes with the confirmation
ConfirmInputs ==
    { [ start_address |-> "5th Ave", transport |-> "driving", travel_time |-> "30" ] }

\* outcomes of one run of the recommendation pipeline
AlgoOutcomes == { "places", "raise" }

\* a place of the venue provider's answer: the restaurant of a cell of the
\* plane (the fields of the X-Goog-FieldMask header)
Place(cell) ==
    [ displayName |-> [ text |-> "diner " \o cell ],
      formattedAddress |-> "1 " \o cell \o " road",
      location |-> cell ]

\* an insert that stores the first place of the list only
push_first_place(recs, places) ==
    recs \o [ i \in 1..(IF Len(places) = 0 THEN 0 ELSE 1) |->
                [ name |-> places[i].displayName.text,
                  address |-> places[i].formattedAddress,
                  location |-> places[i].location ] ]

\* push_recommendations: one row for every place, inserted into
\* place_recommendations (the model holds the rows of one hangout)
push_recommendations(recs, places) ==
    recs \o [ i \in 1..Len(places) |->
                [ name |-> places[i].displayName.text,
                  address |-> places[i].formattedAddress,
                  location |-> places[i].location ] ]

\* findRecommendations: the filtered places of a successful run, persisted
\* for the hangout
findRecommendations(recs, places) == push_recommendations(recs, places)

\* start_algo after findRecommendations returned: every row of the hangout gets
\* pending-location-vote, then NotificationType.SELECT_PLACES is looked up
start_algo_raises == "SELECT_PLACES" \notin NotificationTypeMembers

\* a start_algo that writes pending-location-vote before it runs the pipeline
start_algo_updates_first(parts, recs, notes, creator, algo) ==
    [ raised |-> TRUE, participants |-> update_all_flow(parts, PENDING_LOCATION_VOTE),
      recommendations |-> recs, notifications |-> notes ]

\* start_algo: findRecommendations (whose exception ends the call), then
\* pending-location-vote on every row of the hangout, then the select-places
\* notification of the accepted participants
start_algo(parts, recs, notes, creator, algo) ==
    LET notif == send_notification_bulk(notes, creator, accepted_rows(parts),
                                        "select-places")
    IN  IF algo = "raise"
        THEN [ raised |-> TRUE, participants |-> parts,
               recommendations |-> recs, notifications |-> notes ]
        ELSE IF start_algo_raises \/ notif.raised # NULL
        THEN [ raised |-> TRUE,
               participants |-> update_all_flow(parts, PENDING_LOCATION_VOTE),
               recommendations |-> findRecommendations(recs, << Place("centre") >>),
               notifications |-> notes ]
        ELSE [ raised |-> FALSE,
               participants |-> update_all_flow(parts, PENDING_LOCATION_VOTE),
               recommendations |-> findRecommendations(recs, << Place("centre") >>),
               notifications |-> notif.table ]

submit_time_confirmation(user_id, details, algo) ==
    LET parts1 == [ participants EXCEPT
                      ![user_id].flowStatus = SUBMITTED_CONFIRM_TIME,
                      ![user_id].start_address = details.start_address,
                      ![user_id].transport = details.transport,
                      ![user_id].travel_time = details.travel_time ]
        started == start_algo(parts1, recommendations, notifications,
                              hangout.creator_id, algo)
    IN
    /\ algo_count < MaxAlgoRuns
    /\ UNCHANGED <<meetup_options, meetup_votes, first_poll, resolved_count, procs>>
    /\ IF user_id \notin DOMAIN participants
       THEN /\ result' = Response("submit_time_confirmation", "return None")
            /\ UNCHANGED <<hangout, participants, notifications, recommendations,
                           algo_count>>
       ELSE IF ~check_all_submitted(parts1, SUBMITTED_CONFIRM_TIME)
       THEN /\ participants' = parts1
            /\ result' = Response("submit_time_confirmation", "200 confirmed participant")
            /\ UNCHANGED <<hangout, notifications, recommendations, algo_count>>
       ELSE /\ hangout' = [ hangout EXCEPT !.status = DETERMINING_LOCATION ]
            /\ algo_count' = algo_count + 1
            /\ participants' = started.participants
            /\ recommendations' = started.recommendations
            /\ notifications' = started.notifications
            /\ result' = Response("submit_time_confirmation",
                            IF started.raised THEN "raise UnexpectedError"
                            ELSE "200 confirmed participant and started algorithm")

-----------------------------------------------------------------------------
(* The specifications *)


\* the tables after new_hangout(creator_id, invitee_ids)
Created(invitee_ids) ==
    /\ hangout = new_hangout(invitee_ids)
    /\ participants = invite_users(invitee_ids)
    /\ meetup_options = << >>
    /\ meetup_votes = [ k \in Users \X OptionIds |-> 0 ]
    /\ notifications = [ k \in Users \X (NotificationTypes \cup {"select-places"}) |-> 0 ]
    /\ recommendations = << >>
    /\ result = Response("new_hangout", "200 created the hangout")
    /\ first_poll = << >>
    /\ resolved_count = 0
    /\ algo_count = 0

Init ==
    /\ Created({"ann"})
    /\ procs = << >>

\* the option list of the poll in Spec
PollList == << OptionString(1), OptionString(2) >>

CreatePoll == create_poll(PollList, "ok")
RespondToInvite == \E u \in Users, s \in {ACCEPTED, DECLINED} : respond_to_invite(u, s)
Vote == \E u \in Users, ids \in VoteInputs, fk \in BOOLEAN : vote(u, ids, fk)
SubmitTimeConfirmation ==
    \E u \in Users, d \in ConfirmInputs, algo \in AlgoOutcomes :
        submit_time_confirmation(u, d, algo)

Next == CreatePoll \/ RespondToInvite \/ Vote \/ SubmitTimeConfirmation

Spec == Init /\ [][Next]_vars

\* SpecVote: the invite and poll phase of a hangout with two invitees
InitVote ==
    /\ Created({"ann", "bob"})
    /\ procs = << >>

NextVote == CreatePoll \/ RespondToInvite \/ Vote

SpecVote == InitVote /\ [][NextVote]_vars

-----------------------------------------------------------------------------
(* SpecPoll: create_poll over lists of up to NumOptionStrings distinct      *)
(* options, with and without repeated and malformed entries                 *)

RECURSIVE Ascending(_)
Ascending(S) ==
    IF S = {} THEN << >>
    ELSE LET m == CHOOSE x \in S : \A y \in S : x <= y
         IN  << m >> \o Ascending(S \ {m})

\* the shapes of an option list
ListShapes == { "distinct", "repeated", "malformed" }

\* the runs of consecutive option strings, the empty one included
OptionRuns == { a..b : a \in 1..(NumOptionStrings + 1), b \in 0..NumOptionStrings }

\* the option list naming the strings of S: once each, or each twice, or once
\* each and followed by a malformed entry
PollListOf(S, shape) ==
    LET ascending == Ascending(S)
        once == [ i \in 1..Len(ascending) |-> OptionString(ascending[i]) ]
    IN  once \o (IF shape = "repeated" THEN once ELSE << >>)
             \o (IF shape = "malformed" THEN << MalformedOption >> ELSE << >>)

CreateAnyPoll ==
    \E S \in OptionRuns, shape \in ListShapes, io \in PollIO :
        create_poll(PollListOf(S, shape), io)

NextPoll == CreateAnyPoll

SpecPoll == Init /\ [][NextPoll]_vars

-----------------------------------------------------------------------------
(* SpecConc: the requests of two participants, each handler one storage     *)
(* read or write at a time. Every user issues at most one vote() and one    *)
(* submit_time_confirmation(); the hangout has been created for two         *)
(* invitees, and the poll creation and the invite response are whole calls  *)
(* made before the first request starts.                                    *)

\* the users whose requests interleave
Callers == { creator_id, "ann" }

idle_request ==
    [ pc |-> "idle", voted |-> FALSE, confirmed |-> FALSE,
      hangout_participants |-> {}, winner |-> 0 ]

InitConc ==
    /\ Created({"ann", "bob"})
    /\ procs = [ u \in Callers |-> idle_request ]

\* no request has started yet
Quiet == \A u \in Callers : procs[u] = idle_request

ConcSetup ==
    /\ Quiet
    /\ \/ create_poll(PollList, "ok")
       \/ respond_to_invite("ann", ACCEPTED)

at(u, pc) == procs[u].pc = pc
goto(u, pc) == procs' = [ procs EXCEPT ![u].pc = pc ]
return(u, op, resp) ==
    /\ procs' = [ procs EXCEPT ![u].pc = "idle" ]
    /\ result' = Response(op, resp)

BeginVote(u) ==
    /\ at(u, "idle") /\ ~procs[u].voted
    /\ procs' = [ procs EXCEPT ![u].pc = "vote", ![u].voted = TRUE ]
    /\ UNCHANGED <<tables, result, first_poll, resolved_count, algo_count>>

\* vote: concluded = check_if_vote_is_concluded(supabase, hangout_id)
VoteConcluded(u) ==
    /\ at(u, "vote")
    /\ IF check_if_vote_is_concluded(hangout)
       THEN return(u, "vote", "500 poll is concluded")
       ELSE goto(u, "vote_options") /\ UNCHANGED result
    /\ UNCHANGED <<tables, first_poll, resolved_count, algo_count>>

\* vote: vote_options = select id from meetup_options, and the loop over it
VoteOptions(u) ==
    /\ at(u, "vote_options")
    /\ IF invalid_option({1}, flattened_options(meetup_options))
       THEN return(u, "vote", "500 invalid voting option")
       ELSE goto(u, "vote_upsert") /\ UNCHANGED result
    /\ UNCHANGED <<tables, first_poll, resolved_count, algo_count>>

\* vote: meetup_votes.upsert(data)
VoteUpsert(u) ==
    /\ at(u, "vote_upsert")
    /\ meetup_votes' = upsert(meetup_votes, { <<u, 1>> })
    /\ goto(u, "vote_status")
    /\ UNCHANGED <<hangout, participants, meetup_options, notifications,
                   recommendations, result, first_poll, resolved_count, algo_count>>

\* vote: the update of the voter's flowStatus
VoteStatus(u) ==
    /\ at(u, "vote_status")
    /\ IF u \in DOMAIN participants
       THEN /\ participants' =
                [ participants EXCEPT ![u].flowStatus = SUBMITTED_TIME_VOTE ]
            /\ goto(u, "vote_hangout") /\ UNCHANGED result
       ELSE /\ return(u, "vote", "500 status not updated")
            /\ UNCHANGED participants
    /\ UNCHANGED <<hangout, meetup_options, meetup_votes, notifications,
                   recommendations, first_poll, resolved_count, algo_count>>

\* vote: hangout_response = get_hangout(hangout_id)
VoteHangout(u) ==
    /\ at(u, "vote_hangout")
    /\ goto(u, "vote_count")
    /\ UNCHANGED <<tables, result, first_poll, resolved_count, algo_count>>

\* vote: user_votes = select user_id from meetup_votes, and the completion test
VoteCount(u) ==
    /\ at(u, "vote_count")
    /\ IF all_voted(meetup_votes, hangout)
       THEN goto(u, "set_winner") /\ UNCHANGED result
       ELSE return(u, "vote", "200 added your vote")
    /\ UNCHANGED <<tables, first_poll, resolved_count, algo_count>>

\* set_scheduled_time: rpc get_vote_winner
SetWinner(u) ==
    /\ at(u, "set_winner")
    /\ LET winners == get_vote_winner(meetup_options, meetup_votes)
       IN  IF winners = {}
           THEN return(u, "vote", "raise UnexpectedError")
           ELSE /\ \E w \in winners :
                      procs' = [ procs EXCEPT ![u].pc = "set_hangout", ![u].winner = w ]
                /\ UNCHANGED result
    /\ UNCHANGED <<tables, first_poll, resolved_count, algo_count>>

\* set_scheduled_time: the update of the hangouts row
SetHangout(u) ==
    /\ at(u, "set_hangout")
    /\ hangout' = scheduled(hangout, meetup_options[procs[u].winner])
    /\ resolved_count' = resolved_count + 1
    /\ goto(u, "set_participants")
    /\ UNCHANGED <<participants, meetup_options, meetup_votes, notifications,
                   recommendations, result, first_poll, algo_count>>

\* set_scheduled_time: the update of every participant's flowStatus
SetParticipants(u) ==
    /\ at(u, "set_participants")
    /\ participants' = update_all_flow(participants, PENDING_CONFIRM_TIME)
    /\ goto(u, "set_notify")
    /\ UNCHANGED <<hangout, meetup_options, meetup_votes, notifications,
                   recommendations, result, first_poll, resolved_count, algo_count>>

\* set_scheduled_time: send_notification_bulk, and vote's return
SetNotify(u) ==
    /\ at(u, "set_notify")
    /\ LET notif == send_notification_bulk(notifications, hangout.creator_id,
                                           hangout.invitee_ids, NOTIF_CONFIRM_TIME)
       IN  /\ notifications' = notif.table
           /\ return(u, "vote", IF notif.raised # NULL THEN "raise UnexpectedError"
                                ELSE "200 added your vote")
    /\ UNCHANGED <<hangout, participants, meetup_options, meetup_votes,
                   recommendations, first_poll, resolved_count, algo_count>>

BeginConfirm(u) ==
    /\ at(u, "idle") /\ ~procs[u].confirmed
    /\ procs' = [ procs EXCEPT ![u].pc = "confirm", ![u].confirmed = TRUE ]
    /\ UNCHANGED <<tables, result, first_poll, resolved_count, algo_count>>

\* submit_time_confirmation: user_check = select auth_id from users
ConfirmUser(u) ==
    /\ at(u, "confirm")
    /\ IF u \in Users
       THEN goto(u, "confirm_update") /\ UNCHANGED result
       ELSE return(u, "submit_time_confirmation", "404 user not found")
    /\ UNCHANGED <<tables, first_poll, resolved_count, algo_count>>

\* submit_time_confirmation: the update of the caller's row
ConfirmUpdate(u) ==
    /\ at(u, "confirm_update")
    /\ IF u \in DOMAIN participants
       THEN /\ \E details \in ConfirmInputs :
                 participants' =
                     [ participants EXCEPT
                         ![u].flowStatus = SUBMITTED_CONFIRM_TIME,
                         ![u].start_address = details.start_address,
                         ![u].transport = details.transport,
                         ![u].travel_time = details.travel_time ]
            /\ goto(u, "check_accepted") /\ UNCHANGED result
       ELSE /\ return(u, "submit_time_confirmation", "return None")
            /\ UNCHANGED participants
    /\ UNCHANGED <<hangout, meetup_options, meetup_votes, notifications,
                   recommendations, first_poll, resolved_count, algo_count>>

\* check_all_submitted: hangout_participants = the accepted rows
CheckAccepted(u) ==
    /\ at(u, "check_accepted")
    /\ procs' = [ procs EXCEPT ![u].pc = "check_submitted",
                               ![u].hangout_participants = accepted_rows(participants) ]
    /\ UNCHANGED <<tables, result, first_poll, resolved_count, algo_count>>

\* check_all_submitted: participants_submitted, and the comparison
CheckSubmitted(u) ==
    /\ at(u, "check_submitted")
    /\ IF same_length(procs[u].hangout_participants,
                      flow_rows(participants, SUBMITTED_CONFIRM_TIME))
       THEN goto(u, "confirm_hangout") /\ UNCHANGED result
       ELSE return(u, "submit_time_confirmation", "200 confirmed participant")
    /\ UNCHANGED <<tables, first_poll, resolved_count, algo_count>>

\* submit_time_confirmation: hangouts.update(status = determining-location)
ConfirmHangout(u) ==
    /\ at(u, "confirm_hangout")
    /\ hangout' = [ hangout EXCEPT !.status = DETERMINING_LOCATION ]
    /\ goto(u, "algo_find")
    /\ UNCHANGED <<participants, meetup_options, meetup_votes, notifications,
                   recommendations, result, first_poll, resolved_count, algo_count>>

\* start_algo: findRecommendations(hangout_id)
AlgoFind(u) ==
    /\ at(u, "algo_find")
    /\ algo_count' = algo_count + 1
    /\ \E algo \in AlgoOutcomes :
          IF algo = "raise"
          THEN /\ return(u, "submit_time_confirmation", "raise UnexpectedError")
               /\ UNCHANGED recommendations
          ELSE /\ recommendations' = findRecommendations(recommendations, << Place("centre") >>)
               /\ goto(u, "algo_hangout") /\ UNCHANGED result
    /\ UNCHANGED <<hangout, participants, meetup_options, meetup_votes,
                   notifications, first_poll, resolved_count>>

\* start_algo: hangout_response = get_hangout(hangout_id)
AlgoHangout(u) ==
    /\ at(u, "algo_hangout")
    /\ goto(u, "algo_accepted")
    /\ UNCHANGED <<tables, result, first_poll, resolved_count, algo_count>>

\* start_algo: hangout_participants = the accepted rows
AlgoAccepted(u) ==
    /\ at(u, "algo_accepted")
    /\ procs' = [ procs EXCEPT ![u].pc = "algo_participants",
                               ![u].hangout_participants = accepted_rows(participants) ]
    /\ UNCHANGED <<tables, result, first_poll, resolved_count, algo_count>>

\* start_algo: the update of every participant's flowStatus
AlgoParticipants(u) ==
    /\ at(u, "algo_participants")
    /\ participants' = update_all_flow(participants, PENDING_LOCATION_VOTE)
    /\ goto(u, "algo_notify")
    /\ UNCHANGED <<hangout, meetup_options, meetup_votes, notifications,
                   recommendations, result, first_poll, resolved_count, algo_count>>

\* start_algo: send_notification_bulk(..., NotificationType.SELECT_PLACES, ...),
\* and submit_time_confirmation's return
AlgoNotify(u) ==
    /\ at(u, "algo_notify")
    /\ LET notif == send_notification_bulk(notifications, hangout.creator_id,
                                           procs[u].hangout_participants, "select-places")
       IN  IF start_algo_raises \/ notif.raised # NULL
           THEN /\ return(u, "submit_time_confirmation", "raise UnexpectedError")
                /\ UNCHANGED notifications
           ELSE /\ notifications' = notif.table
                /\ return(u, "submit_time_confirmation",
                          "200 confirmed participant and started algorithm")
    /\ UNCHANGED <<hangout, participants, meetup_options, meetup_votes,
                   recommendations, first_poll, resolved_count, algo_count>>

Request(u) ==
    \/ BeginVote(u) \/ VoteConcluded(u) \/ VoteOptions(u) \/ VoteUpsert(u)
    \/ VoteStatus(u) \/ VoteHangout(u) \/ VoteCount(u)
    \/ SetWinner(u) \/ SetHangout(u) \/ SetParticipants(u) \/ SetNotify(u)
    \/ BeginConfirm(u) \/ ConfirmUser(u) \/ ConfirmUpdate(u)
    \/ CheckAccepted(u) \/ CheckSubmitted(u) \/ ConfirmHangout(u)
    \/ AlgoFind(u) \/ AlgoHangout(u) \/ AlgoAccepted(u) \/ AlgoParticipants(u)
    \/ AlgoNotify(u)

NextConc == ConcSetup \/ \E u \in Callers : Request(u)

SpecConc == InitConc /\ [][NextConc]_vars

-----------------------------------------------------------------------------
(* SpecPollConc: two create_poll requests for the hangout, each split at    *)
(* its storage calls                                                        *)

PollCallers == { "first", "second" }

\* the option lists the two requests are made with
ConcPollLists ==
    { PollListOf(1..(NumOptionStrings \div 2), "distinct"),
      PollListOf(((NumOptionStrings \div 2) + 1)..NumOptionStrings, "distinct") }

idle_poll_request == [ pc |-> "idle", options |-> << >> ]

InitPollConc ==
    /\ Created({"ann"})
    /\ procs = [ c \in PollCallers |-> idle_poll_request ]

\* create_poll: unique_options, the limit test, and the rows to insert
PollBegin(c) ==
    /\ procs[c] = idle_poll_request
    /\ \E options \in ConcPollLists :
         IF Len(unique_options(options)) > MaxPollOptions
         THEN /\ procs' = [ procs EXCEPT ![c].pc = "done", ![c].options = options ]
              /\ result' = PollResponse(options, "raise ValueError")
         ELSE /\ procs' = [ procs EXCEPT ![c].pc = "poll_check", ![c].options = options ]
              /\ UNCHANGED result
    /\ UNCHANGED <<tables, first_poll, resolved_count, algo_count>>

\* create_poll: check_response = select hangout_id from meetup_options
PollCheck(c) ==
    /\ at(c, "poll_check")
    /\ IF poll_exists(meetup_options)
       THEN /\ goto(c, "done")
            /\ result' = PollResponse(procs[c].options, "500 poll already exists")
       ELSE goto(c, "poll_insert") /\ UNCHANGED result
    /\ UNCHANGED <<tables, first_poll, resolved_count, algo_count>>

\* create_poll: meetup_options.insert(data)
PollInsert(c) ==
    /\ at(c, "poll_insert")
    /\ LET uniq == unique_options(procs[c].options)
           data == [ i \in 1..Len(uniq) |-> insertData(uniq[i]) ]
       IN  /\ meetup_options' = meetup_options \o data
           /\ first_poll' = IF first_poll = << >> THEN data ELSE first_poll
    /\ goto(c, "poll_hangout")
    /\ UNCHANGED <<hangout, participants, meetup_votes, notifications,
                   recommendations, result, resolved_count, algo_count>>

\* create_poll: hangout_response = get_hangout(hangout_id)
PollHangout(c) ==
    /\ at(c, "poll_hangout")
    /\ goto(c, "poll_notify")
    /\ UNCHANGED <<tables, result, first_poll, resolved_count, algo_count>>

\* create_poll: send_notification_bulk to the invitees
PollNotify(c) ==
    /\ at(c, "poll_notify")
    /\ LET notif == send_notification_bulk(notifications, hangout.creator_id,
                                           hangout.invitee_ids, SELECT_AVAILABILITY)
       IN  IF notif.raised # NULL
           THEN /\ goto(c, "done")
                /\ result' = PollResponse(procs[c].options, "raise UnexpectedError")
                /\ UNCHANGED notifications
           ELSE /\ notifications' = notif.table
                /\ goto(c, "poll_status") /\ UNCHANGED result
    /\ UNCHANGED <<hangout, participants, meetup_options, meetup_votes,
                   recommendations, first_poll, resolved_count, algo_count>>

\* create_poll: the update of the creator's flowStatus, and the return
PollStatus(c) ==
    /\ at(c, "poll_status")
    /\ goto(c, "done")
    /\ IF hangout.creator_id \in DOMAIN participants
       THEN /\ participants' =
                [ participants EXCEPT
                    ![hangout.creator_id].flowStatus = SUBMITTED_TIME_INPUT ]
            /\ result' = PollResponse(procs[c].options, "200 created poll")
       ELSE /\ UNCHANGED participants
            /\ result' = PollResponse(procs[c].options, "500 status not updated")
    /\ UNCHANGED <<hangout, meetup_options, meetup_votes, notifications,
                   recommendations, first_poll, resolved_count, algo_count>>

PollRequest(c) ==
    \/ PollBegin(c) \/ PollCheck(c) \/ PollInsert(c)
    \/ PollHangout(c) \/ PollNotify(c) \/ PollStatus(c)

NextPollConc == \E c \in PollCallers : PollRequest(c)

SpecPollConc == InitPollConc /\ [][NextPollConc]_vars

-----------------------------------------------------------------------------
(* update_flow_status, and SpecFlow: the handlers that write a flow status  *)

\* the member names of FlowStatus
FlowStatusMembers ==
    { "PENDING_TIME_INPUT", "SUBMITTED_TIME_INPUT", "PENDING_TIME_VOTE",
      "SUBMITTED_TIME_VOTE", "PENDING_LOCATION_VOTE", "SUBMITTED_LOCATION_VOTE",
      "PENDING_CONFIRM_TIME", "SUBMITTED_CONFIRM_TIME",
      "PENDING_CONFIRM_LOCATION", "SUBMITTED_CONFIRM_LOCATION" }

\* the values update_flow_status is called with
FlowStatusInputs == { "declined", "accepted" }

update_flow_status(user_id, new_status) ==
    /\ UNCHANGED <<hangout, meetup_options, meetup_votes, notifications,
                   recommendations, first_poll, resolved_count, algo_count, procs>>
    /\ IF new_status = "declined"
       THEN IF user_id \in DOMAIN participants
            THEN /\ participants' =
                     [ u \in DOMAIN participants \ {user_id} |-> participants[u] ]
                 /\ result' = [ op |-> "update_flow_status",
                                resp |-> "200 declined final confirmation",
                                recast |-> FALSE,
                                user |-> user_id, removed |-> participants[user_id] ]
            ELSE /\ UNCHANGED participants
                 /\ result' = Response("update_flow_status", "500 error while updating")
       ELSE IF "ACCEPTED_FINAL_CONFIRMATION" \notin FlowStatusMembers
       THEN \* AttributeError, caught: return 500 with the error's text
            /\ UNCHANGED participants
            /\ result' = Response("update_flow_status", "500 error while updating")
       ELSE IF user_id \in DOMAIN participants
       THEN /\ participants' =
                [ participants EXCEPT ![user_id].flowStatus = "accepted-final-confirmation" ]
            /\ result' = Response("update_flow_status", "200 accepted final confirmation")
       ELSE /\ UNCHANGED participants
            /\ result' = Response("update_flow_status", "500 error while updating")

\* SpecFlow: the calls of the hangout's two participants that pass the
\* handlers' checks of their arguments
FlowRespond == \E u \in DOMAIN participants : respond_to_invite(u, ACCEPTED)
FlowVote == \E u \in DOMAIN participants : vote(u, {1}, FALSE)
FlowConfirm ==
    \E u \in DOMAIN participants, d \in ConfirmInputs, algo \in AlgoOutcomes :
        submit_time_confirmation(u, d, algo)
UpdateFlowStatus ==
    \E u \in DOMAIN participants, s \in FlowStatusInputs : update_flow_status(u, s)

NextFlow == CreatePoll \/ FlowRespond \/ FlowVote \/ FlowConfirm \/ UpdateFlowStatus

SpecFlow == Init /\ [][NextFlow]_vars

-----------------------------------------------------------------------------
(* algo.py: getRecommendations and the calls it makes, and SpecAlgo          *)

\* getIsochrones: "if times[i] > 180"
MaxTravelTime == 180

\* travel times of the participants of a run
TravelTimes == { MaxTravelTime - 1, MaxTravelTime, MaxTravelTime + 1 }

\* the plane as three cells; a region (a shapely Polygon or MultiPolygon) is
\* the set of cells it covers, the empty set being the empty geometry
Cells == { "north", "centre", "south" }
Regions == SUBSET Cells

\* Python's None where a region is expected: a value that is no set of cells
None == { NULL }

\* shapely: a.intersection(b); polygon.contains(point) is point \in polygon,
\* region.is_empty is region = {}
intersection(a, b) == a \cap b

\* a fold whose loop runs over polygons[1:2] instead of polygons[1:]
overlap_of_first_two(polygons) ==
    IF Len(polygons) = 0 THEN None
    ELSE IF Len(polygons) = 1 THEN polygons[1]
    ELSE intersection(polygons[1], polygons[2])

\* a fold whose loop overwrites the result: "overlap = poly"
overlap_of_last(polygons) ==
    IF Len(polygons) = 0 THEN None ELSE polygons[Len(polygons)]

\* a fold that starts from the empty geometry instead of polygons[0]
overlap_from_empty(polygons) == IF Len(polygons) = 0 THEN None ELSE {}

\* getOverlap, the loop "for poly in polygons[1:]" from the i-th polygon on
RECURSIVE fold(_, _, _)
fold(overlap, polygons, i) ==
    IF i > Len(polygons) THEN overlap
    ELSE fold(intersection(overlap, polygons[i]), polygons, i + 1)

\* getOverlap: None for no polygon, else polygons[0] intersected with the rest
getOverlap(polygons) ==
    IF Len(polygons) = 0 THEN None ELSE fold(polygons[1], polygons, 2)

\* the lists of places the provider answers with
PlaceLists ==
    { << >>, << Place("north") >>, << Place("north"), Place("centre") >>,
      << Place("centre"), Place("south") >> }

\* the order in which get_hangout_participants returns the rows
UserOrder == << creator_id, "ann", "bob" >>

\* the isochrones the provider answers with, one for every participant:
\* pairwise apart, pairwise overlapping without a common cell, one common
\* cell, two common cells, the same region for all
ShapeAnswers ==
    { [ u \in Users |-> CASE u = creator_id -> {"north"}
                          [] u = "ann" -> {"centre"}
                          [] OTHER -> {"south"} ],
      [ u \in Users |-> CASE u = creator_id -> {"north", "centre"}
                          [] u = "ann" -> {"centre", "south"}
                          [] OTHER -> {"south", "north"} ],
      [ u \in Users |-> CASE u = creator_id -> {"north", "centre"}
                          [] u = "ann" -> {"centre", "south"}
                          [] OTHER -> {"centre"} ],
      [ u \in Users |-> CASE u = creator_id -> Cells
                          [] u = "ann" -> {"south"}
                          [] OTHER -> {"north", "centre"} ],
      [ u \in Users |-> Cells ] }

\* what the three providers answer in a run: whether each request is answered,
\* the isochrone of every participant, the places around the centre; a
\* request that follows a failed one is not issued, so its answer is fixed
External ==
    { ext \in [ geocoder : { "geocodes", "error", "no feature" },
                isochrone : { "shapes", "error" }, shapes : ShapeAnswers,
                places : { "places", "error" }, data : PlaceLists ] :
        /\ ext.geocoder # "geocodes" => ext.isochrone = "shapes"
        /\ ext.isochrone = "error" \/ ext.geocoder # "geocodes"
              => ext.places = "places" /\ ext.shapes = [ u \in Users |-> Cells ]
        /\ ext.places = "error" \/ ext.isochrone = "error" \/ ext.geocoder # "geocodes"
              => ext.data = << >> }

\* the end of a call inside getRecommendations' try block: what was raised (or
\* "none") with which message, why, the external requests issued up to then,
\* and the value returned
Outcome(raised, cause, calls) ==
    [ raised |-> raised, cause |-> cause, calls |-> calls, message |-> "",
      value |-> NULL ]

\* an exception with its message
saying(outcome, message) == [ outcome EXCEPT !.message = message ]

\* a call that returned: nothing raised, the external requests it issued
Returned(calls) == Outcome("none", "none", calls)

\* a call that returned a value
returning(outcome, value) == [ outcome EXCEPT !.value = value ]

\* getAlgoInputs: the rows of get_hangout_participants (status accepted)
getAlgoInputs(parts) == { u \in DOMAIN parts : parts[u].status = ACCEPTED }

\* the rows of getAlgoInputs in the order of the query's answer
input_rows(parts) == SelectSeq(UserOrder, LAMBDA u : u \in getAlgoInputs(parts))

\* the address whose entry of the geocoder's answer "no feature" holds no
\* feature: the last of the batch
unresolved(addresses) == addresses[Len(addresses)]

\* a geocoding that names the first address of the batch in its error
geocodes_naming_first(addresses, ext) ==
    IF addresses = << >>
    THEN saying(Outcome("ValueError", "validation", << >>),
                "Addresses array can't be empty")
    ELSE IF ext.geocoder = "error"
    THEN saying(Outcome("ExternalAPIError", "external", << "geocoder" >>),
                "MapboxAPI Error")
    ELSE IF ext.geocoder = "no feature"
    THEN saying(Outcome("ValueError", "validation", << "geocoder" >>),
                addresses[1] \o " did not map to a geocode")
    ELSE Returned(<< "geocoder" >>)

\* getGeocodes: the test for no address, the request, the tests of its answer
getGeocodes(addresses, ext) ==
    IF addresses = << >>
    THEN saying(Outcome("ValueError", "validation", << >>),
                "Addresses array can't be empty")
    ELSE IF ext.geocoder = "error"
    THEN saying(Outcome("ExternalAPIError", "external", << "geocoder" >>),
                "MapboxAPI Error")
    ELSE IF ext.geocoder = "no feature"
    THEN saying(Outcome("ValueError", "validation", << "geocoder" >>),
                unresolved(addresses) \o " did not map to a geocode")
    ELSE Returned(<< "geocoder" >>)

\* getIsochrones: the travel-time test of the loop, then the request, whose
\* answer holds one MultiPolygon for every search
getIsochrones(users, times, ext) ==
    IF \E t \in times : t > MaxTravelTime
    THEN saying(Outcome("ValueError", "validation", << >>),
                "Travel time must be less than 3 hours (180 minutes)")
    ELSE IF ext.isochrone = "error"
    THEN saying(Outcome("ExternalAPIError", "external", << "isochrone" >>),
                "TravelTimeAPI Error")
    ELSE returning(Returned(<< "isochrone" >>),
                   [ i \in 1..Len(users) |-> ext.shapes[users[i]] ])

\* getPlaces: "data = response.json(); if data.status_code != 200": the answer
\* is a dict, and a dict has no attribute status_code
has_status_code == FALSE

\* getPlaces, the loop over places: those whose point the polygon contains
filteredPlaces(polygon, places) ==
    SelectSeq(places, LAMBDA place : place.location \in polygon)

\* getPlaces: the request, the test of the answer (AttributeError on every
\* answer, turned into ExternalAPIError by the except clause), then the filter
getPlaces(polygon, ext) ==
    IF ext.places = "error"
    THEN saying(Outcome("ExternalAPIError", "external", << "places" >>),
                "GooglePlacesAPI Error")
    ELSE IF ~has_status_code
    THEN saying(Outcome("ExternalAPIError", "external", << "places" >>),
                "'dict' object has no attribute 'status_code'")
    ELSE returning(Returned(<< "places" >>), filteredPlaces(polygon, ext.data))

\* the outcome of a call made after the requests calls were issued
after(calls, outcome) == [ outcome EXCEPT !.calls = calls \o @ ]

\* the body of getRecommendations' try block
recommend(h, parts, ext) ==
    IF h.status # DETERMINING_LOCATION
    THEN saying(Outcome("ValueError", "state", << >>),
                "Hangout status must be determining-location")
    ELSE
    LET inputs == input_rows(parts)
        startPoints == getGeocodes([ i \in 1..Len(inputs) |-> parts[inputs[i]].start_address ], ext)
        isochrones == after(startPoints.calls,
                            getIsochrones(inputs,
                                { parts[u].travel_time : u \in getAlgoInputs(parts) }, ext))
        overlap == getOverlap(isochrones.value)
        places == after(isochrones.calls, getPlaces(overlap, ext))
    IN  IF startPoints.raised # "none" THEN startPoints
        ELSE IF isochrones.raised # "none" THEN isochrones
        ELSE IF overlap = None \/ overlap = {}
        THEN saying(Outcome("ValueError", "no result", isochrones.calls),
                    "No overlap between isochrones")
        ELSE IF places.raised # "none" THEN places
        ELSE IF Len(places.value) = 0
        THEN saying(Outcome("ValueError", "no result", places.calls),
                    "No places found within overlap")
        ELSE places

\* getRecommendations: "except Exception as e: raise UnexpectedError(e)"
raised_to_caller(raised) == IF raised = "none" THEN "none" ELSE "UnexpectedError"

\* the response of a getRecommendations call, with the cause and the message
\* of its failure, the external requests it issued, what the providers
\* answered, and the places it returned
AlgoResponse(outcome) ==
    [ op |-> "getRecommendations", recast |-> FALSE,
      resp |-> IF outcome.raised = "none" THEN "200 places"
               ELSE "raise " \o raised_to_caller(outcome.raised),
      cause |-> outcome.cause, calls |-> outcome.calls,
      message |-> outcome.message,
      places |-> IF outcome.raised = "none" THEN outcome.value ELSE << >> ]

\* the requests a response lists as issued
called(response) == { response.calls[i] : i \in DOMAIN response.calls }

\* what a run was answered: what the geocoder answered and the address it
\* found no feature for, the isochrones of its searches, and whether the
\* venue provider answered and with which places
Answered(response, parts, ext) ==
    [ field \in DOMAIN response \cup {"geocoder", "no_feature", "isochrones",
                                      "provider", "data"} |->
        CASE field = "geocoder" ->
               IF "geocoder" \in called(response) THEN ext.geocoder ELSE "not called"
          [] field = "no_feature" ->
               IF "geocoder" \in called(response) /\ ext.geocoder = "no feature"
               THEN parts[input_rows(parts)[Len(input_rows(parts))]].start_address
               ELSE NULL
          [] field = "isochrones" ->
               IF "isochrone" \in called(response) /\ ext.isochrone = "shapes"
               THEN [ i \in 1..Len(input_rows(parts)) |-> ext.shapes[input_rows(parts)[i]] ]
               ELSE << >>
          [] field = "provider" ->
               IF "places" \in called(response) THEN ext.places ELSE "not called"
          [] field = "data" ->
               IF "places" \in called(response) /\ ext.places = "places"
               THEN ext.data ELSE << >>
          [] OTHER -> response[field] ]

getRecommendations(ext) ==
    /\ result' = Answered(AlgoResponse(recommend(hangout, participants, ext)),
                          participants, ext)
    /\ UNCHANGED <<tables, first_poll, resolved_count, algo_count, procs>>

\* the hangouts a run is requested for: any status, the invitee accepted or
\* not, every participant with a travel time
AlgoStatuses == { INVITES_SENT, FETCHING_AVAILABILITY, DETERMINING_LOCATION, CONFIRM_TIME }

InitAlgo ==
    /\ \E status \in AlgoStatuses :
          hangout = [ new_hangout({"ann", "bob"}) EXCEPT !.status = status ]
    /\ \E invite \in {PENDING, ACCEPTED}, times \in [ {creator_id, "ann"} -> TravelTimes ] :
          participants =
              [ u \in Users |->
                  [ status |-> IF u = "ann" THEN invite ELSE ACCEPTED,
                    flowStatus |-> SUBMITTED_CONFIRM_TIME,
                    start_address |-> "home of " \o u, transport |-> "driving",
                    travel_time |-> IF u = "bob" THEN MaxTravelTime ELSE times[u] ] ]
    /\ meetup_options = << >>
    /\ meetup_votes = [ k \in Users \X OptionIds |-> 0 ]
    /\ notifications = [ k \in Users \X (NotificationTypes \cup {"select-places"}) |-> 0 ]
    /\ recommendations = << >>
    /\ result = Response("new_hangout", "200 created the hangout")
    /\ first_poll = << >>
    /\ resolved_count = 0
    /\ algo_count = 0
    /\ procs = << >>

NextAlgo == \E ext \in External : getRecommendations(ext)

SpecAlgo == InitAlgo /\ [][NextAlgo]_vars

-----------------------------------------------------------------------------
(* main.py /algo-test, findRecommendations, push_recommendations: SpecRecs   *)

\* the response of a recommendation run, with the places it found
RunResponse(resp, places) ==
    [ op |-> "findRecommendations", resp |-> resp, recast |-> FALSE, places |-> places ]

\* process_algo_test: findRecommendations(hangout_id), "return True" when it
\* returns and a status message when it raises; the run fails outside
\* determining-location and when it finds no place
process_algo_test(places) ==
    /\ algo_count < MaxAlgoRuns
    /\ algo_count' = algo_count + 1
    /\ UNCHANGED <<hangout, participants, meetup_options, meetup_votes, notifications,
                   first_poll, resolved_count, procs>>
    /\ IF hangout.status # DETERMINING_LOCATION \/ Len(places) = 0
       THEN /\ result' = RunResponse("status message", << >>)
            /\ UNCHANGED recommendations
       ELSE /\ recommendations' = findRecommendations(recommendations, places)
            /\ result' = RunResponse("return True", places)

AlgoTest == \E places \in PlaceLists : process_algo_test(places)

NextRecs == CreatePoll \/ FlowRespond \/ FlowVote \/ FlowConfirm \/ AlgoTest

SpecRecs == Init /\ [][NextRecs]_vars

-----------------------------------------------------------------------------
(* algo.py getOverlap as a function of its argument: SpecOverlap             *)

\* the longest list of polygons getOverlap is applied to
MaxPolygons == 3

\* the lists of polygons: every region, the empty one too, at every position
InitOverlap ==
    /\ Created({"ann"})
    /\ procs \in UNION { [ 1..n -> Regions ] : n \in 0..MaxPolygons }

\* getOverlap(polygons) for the list at hand: its argument and what it returned
GetOverlap ==
    /\ result' = [ op |-> "getOverlap", resp |-> "returned", recast |-> FALSE,
                   polygons |-> procs, overlap |-> getOverlap(procs) ]
    /\ UNCHANGED <<tables, first_poll, resolved_count, algo_count, procs>>

SpecOverlap == InitOverlap /\ [][GetOverlap]_vars

-----------------------------------------------------------------------------
(* algo.py getEnclosingCircle as a function of its argument: SpecCircle      *)

\* points with whole coordinates (degrees) from 0 to MaxCoord east, 0 to 2 north
MaxCoord == 2
GridPoints == (0..MaxCoord) \X (0..2)

\* "radius = maxDistDegree * 111320"
MetersPerDegree == 111320

\* twice the signed area of the triangle p, q, r
cross(p, q, r) == (q[1] - p[1]) * (r[2] - p[2]) - (q[2] - p[2]) * (r[1] - p[1])

\* the order in which the points of a polygon are listed
before(p, q) == p[1] < q[1] \/ (p[1] = q[1] /\ p[2] < q[2])

\* a shapely Polygon: a triangle, the sequence of its three vertices
\* (polygon.exterior.coords)
Polygons ==
    { t \in GridPoints \X GridPoints \X GridPoints :
        before(t[1], t[2]) /\ before(t[2], t[3]) /\ cross(t[1], t[2], t[3]) # 0 }

\* polygon.area, doubled so that it stays a whole number
area(polygon) ==
    LET a == cross(polygon[1], polygon[2], polygon[3]) IN IF a < 0 THEN 0 - a ELSE a

\* one edge of a has all of b strictly on its outer side
edge_apart(a, b) ==
    \E i \in 1..3 :
        LET p == a[i]
            q == a[(i % 3) + 1]
            r == a[((i + 1) % 3) + 1]
        IN  \A k \in 1..3 : cross(p, q, b[k]) * cross(p, q, r) < 0

\* two triangles a line separates: they can be the parts of one MultiPolygon
apart(a, b) == edge_apart(a, b) \/ edge_apart(b, a)

\* the regions passed: a Polygon, or a MultiPolygon of two polygons (geoms)
CircleRegions ==
    { [ type |-> "Polygon", geoms |-> << t >> ] : t \in Polygons }
    \cup { [ type |-> "MultiPolygon", geoms |-> geoms ] :
             geoms \in { pair \in Polygons \X Polygons : apart(pair[1], pair[2]) } }

\* polygon.centroid of a triangle, the mean of its vertices: three times its
\* coordinates
centroid(polygon) ==
    << polygon[1][1] + polygon[2][1] + polygon[3][1],
       polygon[1][2] + polygon[2][2] + polygon[3][2] >>

\* center.distance(Point(p)): the square of three times the distance
distance(center, p) ==
    (3 * p[1] - center[1]) * (3 * p[1] - center[1])
      + (3 * p[2] - center[2]) * (3 * p[2] - center[2])

\* max(polygon.geoms, key=lambda p: p.area): the first part of largest area
largest(geoms) ==
    geoms[ CHOOSE i \in DOMAIN geoms :
             /\ \A j \in DOMAIN geoms : area(geoms[i]) >= area(geoms[j])
             /\ \A j \in 1..(i - 1) : area(geoms[j]) < area(geoms[i]) ]

\* the largest of a set of numbers
maximum(S) == CHOOSE m \in S : \A n \in S : m >= n

\* a circle through the nearest exterior vertex: min() for max()
circle_of_nearest(region) ==
    LET polygon == IF region.type = "MultiPolygon" THEN largest(region.geoms)
                   ELSE region.geoms[1]
        center == centroid(polygon)
    IN  [ center |-> center,
          radius |-> [ degrees |-> 0 - maximum({ 0 - distance(center, polygon[k]) : k \in 1..3 }),
                       meters_per_degree |-> MetersPerDegree ] ]

\* getEnclosingCircle: the centroid of the polygon (of the largest part of a
\* MultiPolygon) and the largest distance from it to an exterior vertex,
\* in degrees (as distance is) with the factor that turns degrees into meters
getEnclosingCircle(region) ==
    LET polygon == IF region.type = "MultiPolygon" THEN largest(region.geoms)
                   ELSE region.geoms[1]
        center == centroid(polygon)
    IN  [ center |-> center,
          radius |-> [ degrees |-> maximum({ distance(center, polygon[k]) : k \in 1..3 }),
                       meters_per_degree |-> MetersPerDegree ] ]

InitCircle ==
    /\ Created({"ann"})
    /\ procs \in CircleRegions

\* getEnclosingCircle(polygon) for the region at hand: its argument and what
\* it returned
GetEnclosingCircle ==
    /\ result' = [ op |-> "getEnclosingCircle", resp |-> "returned", recast |-> FALSE,
                   region |-> procs, center |-> getEnclosingCircle(procs).center,
                   radius |-> getEnclosingCircle(procs).radius ]
    /\ UNCHANGED <<tables, first_poll, resolved_count, algo_count, procs>>

SpecCircle == InitCircle /\ [][GetEnclosingCircle]_vars

-----------------------------------------------------------------------------
(* vote and set_scheduled_time with ballots for either option: SpecWinner    *)

\* a ballot for one option of the poll or for both
Ballot == \E u \in DOMAIN participants, ids \in { {1}, {2}, {1, 2} } : vote(u, ids, TRUE)

NextWinner == CreatePoll \/ FlowRespond \/ Ballot

SpecWinner == InitVote /\ [][NextWinner]_vars

-----------------------------------------------------------------------------
(* The claims *)

\* every accepted participant has at least one stored vote
accepted_have_voted(parts, votes) == accepted_rows(parts) \subseteq unique_users(votes)

\* the hangout carries the poll's winner
resolved(h) ==
    /\ h.scheduled_time # NULL /\ h.scheduled_date # NULL
    /\ h.scheduled_start_time # NULL /\ h.scheduled_end_time # NULL
    /\ h.status = CONFIRM_TIME

\* C1: a vote() call on a hangout with an open poll resolves the poll (winner
\* written to the hangout, status confirm-time) exactly when, after the call,
\* every accepted participant, the creator included, has a stored vote; the
\* rows of pending and declined invitees do not count.
C1_ResolvedWhenAllAcceptedVoted ==
    [][ ( /\ meetup_options # << >>
          /\ hangout.scheduled_time = NULL
          /\ result'.op = "vote" )
        => ( resolved(hangout') <=> accepted_have_voted(participants', meetup_votes') )
      ]_vars

\* C2: over any sequence of vote() and submit_time_confirmation() calls the
\* winner is resolved at most once and start_algo runs at most once.
C2_GatesFireAtMostOnce == resolved_count <= 1 /\ algo_count <= 1

\* C3: a submit_time_confirmation() call sets the hangout to
\* determining-location and starts the algorithm exactly when, with the
\* caller's row updated, every accepted participant has flow status
\* submitted-confirm-time.
C3_AlgoStartsWhenAllAcceptedConfirmed ==
    [][ \A u \in Users, d \in ConfirmInputs, algo \in AlgoOutcomes :
          submit_time_confirmation(u, d, algo)
          => LET flow(v) == IF v = u THEN SUBMITTED_CONFIRM_TIME
                            ELSE participants[v].flowStatus
                 all_confirmed == \A v \in accepted_rows(participants) :
                                      flow(v) = SUBMITTED_CONFIRM_TIME
                 started == /\ algo_count' = algo_count + 1
                            /\ hangout'.status = DETERMINING_LOCATION
             IN  started <=> all_confirmed
      ]_vars

\* C5: the votes table holds at most one row per (participant, option); a vote
\* cast again overwrites its row, and a vote() by a user who has voted before
\* does not change the set of distinct voters.
C5_VoteRowsUnique ==
    /\ [](\A k \in DOMAIN meetup_votes : meetup_votes[k] <= 1)
    /\ [][ \A u \in Users, ids \in VoteInputs, fk \in BOOLEAN :
             ( vote(u, ids, fk) /\ u \in unique_users(meetup_votes) )
             => /\ unique_users(meetup_votes') = unique_users(meetup_votes)
                /\ \A o \in ids : meetup_votes[<<u, o>>] = 1 => meetup_votes'[<<u, o>>] = 1
         ]_vars

\* a vote() wrote a row that was there already and the table has it once
C5_Witness ==
    /\ result.op = "vote" /\ result.recast
    /\ \E k \in DOMAIN meetup_votes : meetup_votes[k] = 1

\* C6: once scheduled_time is set, every vote() call returns the "poll is
\* concluded" rejection and changes neither the votes, nor a participant row,
\* nor the hangout row.
C6_VoteAfterResolutionRejected ==
    [][ ( hangout.scheduled_time # NULL /\ result'.op = "vote" )
        => /\ result'.resp = "500 poll is concluded"
           /\ UNCHANGED <<meetup_votes, participants, hangout>>
      ]_vars

\* a vote() was rejected on a resolved hangout
C6_Witness ==
    /\ resolved_count = 1 /\ hangout.scheduled_time # NULL
    /\ result = Response("vote", "500 poll is concluded")

\* C7: a vote() naming an option id that is not a stored option of the hangout
\* returns "Invalid voting option", stores no vote row and leaves the voter's
\* flow status unchanged.
C7_InvalidOptionRejected ==
    [][ \A u \in Users, ids \in VoteInputs, fk \in BOOLEAN :
          ( /\ vote(u, ids, fk)
            /\ hangout.scheduled_time = NULL
            /\ meetup_options # << >>
            /\ \E o \in ids : o \notin 1..Len(meetup_options) )
          => /\ result'.resp = "500 invalid voting option"
             /\ UNCHANGED <<meetup_votes, participants>>
      ]_vars

\* C4: when the vote() and submit_time_confirmation() calls of two accepted
\* participants interleave at the granularity of storage reads and writes, the
\* poll winner is resolved at most once and the algorithm is started at most
\* once.
C4_InterleavedGatesFireOnce ==
    ( /\ meetup_options # << >>
      /\ \A u \in Callers : participants[u].status = ACCEPTED )
    => ( resolved_count <= 1 /\ algo_count <= 1 )

\* the distinct entries of an option list
distinct(options) == { options[i] : i \in 1..Len(options) }

\* C8: create_poll() counts distinct options. A list with 6 or more distinct
\* options raises the validation error and stores nothing; a well-formed list
\* with 1..5 distinct options, duplicates or not, on a hangout without a poll
\* stores exactly one row per distinct option; the table never holds more than
\* 5 rows or two equal rows.
C8_DistinctOptionsCapped ==
    /\ [] /\ Len(meetup_options) <= MaxPollOptions
          /\ \A i, j \in 1..Len(meetup_options) :
                 meetup_options[i] = meetup_options[j] => i = j
    /\ [][ result'.op = "create_poll"
           => LET options == result'.options
                  n == Cardinality(distinct(options))
              IN  /\ n >= MaxPollOptions + 1
                     => /\ result'.resp = "raise ValueError"
                        /\ UNCHANGED tables
                  /\ ( /\ n \in 1..MaxPollOptions
                       /\ \A o \in distinct(options) : unpacks(o)
                       /\ meetup_options = << >> )
                     => /\ Len(meetup_options') = n
                        /\ { meetup_options'[i] : i \in 1..n }
                               = { insertData(o) : o \in distinct(options) }
         ]_vars

\* a list longer than five with five distinct options was accepted and stored
C8_Witness ==
    /\ result.op = "create_poll" /\ result.resp = "200 created poll"
    /\ Len(result.options) > MaxPollOptions
    /\ Len(meetup_options) = MaxPollOptions

\* the ways create_poll reports a failure
PollFailures ==
    { "raise ValueError", "raise UnexpectedError", "500 poll already exists",
      "500 status not updated" }

\* C9: create_poll() with an empty option list stores no option row, sends no
\* notification, leaves every flow status unchanged and reports a failure.
C9_EmptyPollRejected ==
    [][ \A io \in PollIO :
          create_poll(<< >>, io)
          => /\ result'.resp \in PollFailures
             /\ UNCHANGED <<meetup_options, notifications, participants>>
      ]_vars

\* C10: create_poll() on a hangout that has stored options leaves the option
\* rows, the notifications and the flow statuses unchanged and, for a list
\* that passes the argument checks, returns the "poll already exists"
\* rejection; the options of a hangout are those its first storing call stored.
C10_PollCreatedOnce ==
    /\ [](meetup_options # << >> => meetup_options = first_poll)
    /\ [][ ( result'.op = "create_poll" /\ meetup_options # << >> )
           => LET options == result'.options
              IN  /\ UNCHANGED <<meetup_options, notifications, participants>>
                  /\ ( /\ Cardinality(distinct(options)) <= MaxPollOptions
                       /\ \A o \in distinct(options) : unpacks(o) )
                     => result'.resp = "500 poll already exists"
         ]_vars

\* a second create_poll with other options was rejected and the first poll is
\* still stored
C10_Witness ==
    /\ result.op = "create_poll" /\ result.resp = "500 poll already exists"
    /\ result.options # << >>
    /\ \A o \in distinct(result.options) :
           \A i \in 1..Len(meetup_options) : meetup_options[i] # insertData(o)
    /\ meetup_options # << >> /\ meetup_options = first_poll

\* C11: when two create_poll() calls for the hangout interleave at the
\* granularity of storage reads and writes, the stored options are those of
\* one call only (at most one call inserts, the two option sets never mix)
\* and there are never more than 5 of them.
C11_PollInsertIfAbsent ==
    /\ Len(meetup_options) <= MaxPollOptions
    /\ \/ meetup_options = << >>
       \/ \E c \in PollCallers :
             /\ Len(meetup_options) = Cardinality(distinct(procs[c].options))
             /\ { meetup_options[i] : i \in 1..Len(meetup_options) }
                    = { insertData(o) : o \in distinct(procs[c].options) }

\* C12: a respond_to_invite() call on a hangout in invites-sent sets the
\* status to fetching-availability when it leaves no participant row with
\* invite status pending, and leaves it invites-sent when a row is pending.
C12_AllRespondedAdvances ==
    [][ ( result'.op = "respond_to_invite" /\ hangout.status = INVITES_SENT )
        => hangout'.status =
             IF \E u \in DOMAIN participants' : participants'[u].status = PENDING
             THEN INVITES_SENT
             ELSE FETCHING_AVAILABILITY
      ]_vars

\* the last pending invitee accepted and the hangout advanced
C12_Witness ==
    /\ result.op = "respond_to_invite" /\ result.resp = "200 updated the invite"
    /\ \A u \in DOMAIN participants : participants[u].status = ACCEPTED
    /\ hangout.status = FETCHING_AVAILABILITY

\* C13: when an invitee declines and every other invitee has declined, the
\* hangout's status becomes declined.
C13_AllDeclinedEndsHangout ==
    [][ \A u \in hangout.invitee_ids :
          ( /\ respond_to_invite(u, DECLINED)
            /\ \A v \in hangout.invitee_ids \ {u} : participants[v].status = DECLINED )
          => hangout'.status = "declined"
      ]_vars

\* C14: respond_to_invite(hangout, user, status) on an existing participant
\* row sets the row's invite status to the incoming status, declined as well
\* as accepted, and returns the 200 response; an accepted response also sets
\* the row's flow status to pending-time-vote.
C14_InviteResponseStored ==
    [][ \A u \in DOMAIN participants, status \in {ACCEPTED, DECLINED} :
          respond_to_invite(u, status)
          => /\ participants'[u].status = status
             /\ result'.resp = "200 updated the invite"
             /\ status = ACCEPTED => participants'[u].flowStatus = PENDING_TIME_VOTE
      ]_vars

\* C15: whenever a create_poll() call stores the options of the hangout, the
\* creator's participant row has flow status submitted-time-input when the
\* call ends, whatever the hangout lookup and the notification delivery did.
C15_PollCreatorSubmitted ==
    [][ ( result'.op = "create_poll" /\ meetup_options' # meetup_options )
        => participants'[hangout.creator_id].flowStatus = SUBMITTED_TIME_INPUT
      ]_vars

\* the order in which a participant's flow status advances
FlowSequence ==
    << PENDING_TIME_INPUT, SUBMITTED_TIME_INPUT, PENDING_TIME_VOTE,
       SUBMITTED_TIME_VOTE, PENDING_CONFIRM_TIME, SUBMITTED_CONFIRM_TIME,
       PENDING_LOCATION_VOTE, "submitted-location-vote",
       "pending-confirm-location", "submitted-confirm-location" >>

\* the place of a flow status in the sequence; 0 for a row without one,
\* -1 for a value outside the sequence
FlowRank(flowStatus) ==
    IF flowStatus = NULL THEN 0
    ELSE IF \E i \in 1..Len(FlowSequence) : FlowSequence[i] = flowStatus
    THEN CHOOSE i \in 1..Len(FlowSequence) : FlowSequence[i] = flowStatus
    ELSE -1

\* C16: no create_poll, respond_to_invite, vote, submit_time_confirmation or
\* update_flow_status call sets the flow status of a participant row to an
\* earlier value of the sequence or to a value outside it (a row may be
\* removed).
C16_FlowStatusAdvances ==
    [][ \A u \in DOMAIN participants \cap DOMAIN participants' :
          /\ FlowRank(participants'[u].flowStatus) >= FlowRank(participants[u].flowStatus)
          /\ participants'[u].flowStatus # participants[u].flowStatus
             => FlowRank(participants'[u].flowStatus) > 0
      ]_vars

\* the lifecycle order of a hangout's status
StatusSequence ==
    << INVITES_SENT, FETCHING_AVAILABILITY, DETERMINING_LOCATION, CONFIRM_TIME,
       "confirm-meetup", "confirmed" >>

StatusRank(status) ==
    CHOOSE i \in 1..Len(StatusSequence) : StatusSequence[i] = status

\* C17: no respond_to_invite, create_poll, vote or submit_time_confirmation
\* call sets the hangout's status to an earlier state of the lifecycle order
\* invites-sent, fetching-availability, determining-location, confirm-time,
\* confirm-meetup, confirmed.
C17_HangoutStatusAdvances ==
    [][ StatusRank(hangout'.status) >= StatusRank(hangout.status) ]_vars

\* C18: a recommendation run for a hangout whose status is not
\* determining-location issues no external request, writes nothing, and
\* reaches the caller as an error that differs from the one a validation or
\* external-service failure of a run reaches the caller as.
C18_WrongStateRunRejected ==
    [][ ( result'.op = "getRecommendations" /\ hangout.status # DETERMINING_LOCATION )
        => /\ result'.calls = << >>
           /\ UNCHANGED tables
           /\ result'.resp # "200 places"
           /\ \A status \in AlgoStatuses, ext \in External :
                LET other == AlgoResponse(recommend([ hangout EXCEPT !.status = status ],
                                                    participants, ext))
                IN  other.cause \in {"validation", "external"}
                    => other.resp # result'.resp
      ]_vars

\* C19: a recommendation run (hangout in determining-location) with a
\* participant whose travel time is over 180 minutes fails on that validation
\* before any external request is issued.
C19_TravelTimeCheckedFirst ==
    [][ ( /\ result'.op = "getRecommendations"
          /\ hangout.status = DETERMINING_LOCATION
          /\ \E u \in DOMAIN participants :
                /\ participants[u].status = ACCEPTED
                /\ participants[u].travel_time > MaxTravelTime )
        => /\ result'.cause = "validation"
           /\ result'.calls = << >>
      ]_vars

\* C20: two failed recommendation runs whose causes are of different
\* categories (validation, no result, external service) reach the caller of
\* getRecommendations as different errors.
C20_FailureCategoriesDistinct ==
    [][ ( result'.op = "getRecommendations" /\ result'.resp # "200 places" )
        => \A status \in AlgoStatuses, ext \in External :
             LET other == AlgoResponse(recommend([ hangout EXCEPT !.status = status ],
                                                 participants, ext))
                 categories == {"validation", "no result", "external"}
             IN  ( /\ other.cause \in categories /\ result'.cause \in categories
                   /\ other.cause # result'.cause )
                 => other.resp # result'.resp
      ]_vars

\* C21: a run whose isochrones have no cell in common fails with the error
\* "No overlap between isochrones", issues no request to the venue provider
\* and leaves the stored recommendations (and every other table) as they were
C21_EmptyOverlapFails ==
    [][ ( /\ result'.op = "getRecommendations"
          /\ result'.isochrones # << >>
          /\ ~ \E c \in Cells :
                 \A i \in DOMAIN result'.isochrones : c \in result'.isochrones[i] )
        => /\ result'.resp # "200 places"
           /\ result'.message = "No overlap between isochrones"
           /\ \A i \in DOMAIN result'.calls : result'.calls[i] # "places"
           /\ UNCHANGED tables ]_vars

\* three participants whose isochrones are pairwise apart, and the run failed
C21_Witness ==
    /\ result.op = "getRecommendations"
    /\ Len(result.isochrones) = 3
    /\ \A i, j \in 1..3 : i # j => result.isochrones[i] \cap result.isochrones[j] = {}
    /\ result.message = "No overlap between isochrones"

\* the cells every isochrone of a run covers: the intersection polygon
common(isochrones) == { c \in Cells : \A i \in DOMAIN isochrones : c \in isochrones[i] }

\* C22: a run whose venue provider answers with no place inside the
\* intersection polygon fails with the error "No places found within overlap"
\* and stores no recommendation
C22_NoVenueInsideFails ==
    [][ ( /\ result'.op = "getRecommendations"
          /\ result'.provider = "places"
          /\ \A i \in DOMAIN result'.data :
                 result'.data[i].location \notin common(result'.isochrones) )
        => /\ result'.resp # "200 places"
           /\ result'.message = "No places found within overlap"
           /\ UNCHANGED recommendations ]_vars

\* C23: a run whose venue provider answers with at least one place inside the
\* intersection polygon succeeds and returns exactly the places of the answer
\* that lie inside the polygon, in the order of the answer
C23_VenuesInsideReturned ==
    [][ ( /\ result'.op = "getRecommendations"
          /\ result'.provider = "places"
          /\ \E i \in DOMAIN result'.data :
                 result'.data[i].location \in common(result'.isochrones) )
        => /\ result'.resp = "200 places"
           /\ result'.places =
                 SelectSeq(result'.data,
                           LAMBDA place : place.location \in common(result'.isochrones)) ]_vars

C25_LatestRunStored ==
    [][ /\ ( result'.op = "findRecommendations" /\ result'.resp = "return True" )
             => recommendations' =
                  [ i \in 1..Len(result'.places) |->
                      [ name |-> result'.places[i].displayName.text,
                        address |-> result'.places[i].formattedAddress,
                        location |-> result'.places[i].location ] ]
        /\ algo_count' = algo_count => UNCHANGED recommendations ]_vars

\* the list polygons in the order perm of its positions
reordered(polygons, perm) == [ i \in DOMAIN polygons |-> polygons[perm[i]] ]

\* C26: getOverlap returns the same region for every ordering of the same
\* list of polygons
C26_OverlapOrderIndependent ==
    result.op = "getOverlap"
    => \A perm \in Permutations(DOMAIN result.polygons) :
          getOverlap(reordered(result.polygons, perm)) = result.overlap

\* three different polygons whose common region is not empty and is none of
\* the three
C26_Witness ==
    /\ result.op = "getOverlap"
    /\ Len(result.polygons) = 3
    /\ \A i, j \in 1..3 : i # j => result.polygons[i] # result.polygons[j]
    /\ \A i \in 1..3 : result.overlap # result.polygons[i]
    /\ result.overlap # {}

\* C27: getOverlap of the empty list is None, and getOverlap of a polygon
\* listed twice is that polygon
C27_OverlapEmptyAndSelf ==
    result.op = "getOverlap"
    => /\ Len(result.polygons) = 0 => result.overlap = None
       /\ ( Len(result.polygons) = 2 /\ result.polygons[1] = result.polygons[2] )
             => result.overlap = result.polygons[1]

\* a polygon of two cells listed twice
C27_Witness ==
    /\ result.op = "getOverlap"
    /\ Len(result.polygons) = 2
    /\ result.polygons[1] = result.polygons[2]
    /\ Cardinality(result.polygons[1]) = 2

\* the distance from the returned center to the point p, in meters, is at
\* most the returned radius
within_radius(p) ==
    distance(result.center, p) <= result.radius.degrees

votes_for(votes, i) == Cardinality({ k \in rows(votes) : k[2] = i })

\* the option with id i is the one written to the hangout
written(h, options_table, i) ==
    /\ h.scheduled_date = options_table[i].selected_day
    /\ h.scheduled_start_time = options_table[i].start_time
    /\ h.scheduled_end_time = options_table[i].end_time

FlowValues ==
    { PENDING_TIME_INPUT, SUBMITTED_TIME_INPUT, PENDING_TIME_VOTE, SUBMITTED_TIME_VOTE,
      PENDING_CONFIRM_TIME, SUBMITTED_CONFIRM_TIME, PENDING_LOCATION_VOTE }

\* C31: check_all_submitted(hangout, X) is true exactly when the hangout has
\* an accepted participant and every accepted participant has flow status X,
\* whatever the rows of pending or declined participants hold
C31_AllSubmittedCountsAccepted ==
    \A X \in FlowValues :
        check_all_submitted(participants, X)
        <=> /\ \E u \in DOMAIN participants : participants[u].status = ACCEPTED
            /\ \A u \in DOMAIN participants :
                   participants[u].status = ACCEPTED => participants[u].flowStatus = X

-----------------------------------------------------------------------------
(* submit_time_decline, and SpecLeave: participants who act once in a phase *)
(* and participants who leave the hangout                                   *)

\* submit_time_decline: the participant's row is deleted; nothing is returned
\* when no row was deleted. user, removed: whose row was deleted, and the row
submit_time_decline(user_id) ==
    /\ UNCHANGED <<hangout, meetup_options, meetup_votes, notifications,
                   recommendations, first_poll, resolved_count, algo_count, procs>>
    /\ IF user_id \in DOMAIN participants
       THEN /\ participants' =
                [ u \in DOMAIN participants \ {user_id} |-> participants[u] ]
            /\ result' = [ op |-> "submit_time_decline",
                           resp |-> "200 declined participant",
                           recast |-> FALSE,
                           user |-> user_id, removed |-> participants[user_id] ]
       ELSE /\ UNCHANGED participants
            /\ result' = Response("submit_time_decline", "return None")

\* the calls of SpecLeave: an invitee answers the invite once, a participant
\* votes once and confirms once, and any participant may leave
LeaveRespond ==
    \E u \in DOMAIN participants :
        /\ participants[u].status = PENDING
        /\ respond_to_invite(u, ACCEPTED)
LeaveVote ==
    \E u \in DOMAIN participants :
        /\ meetup_options # << >>
        /\ hangout.scheduled_time = NULL
        /\ u \notin unique_users(meetup_votes)
        /\ vote(u, {1}, FALSE)
LeaveConfirm ==
    \E u \in DOMAIN participants, d \in ConfirmInputs :
        /\ hangout.status = CONFIRM_TIME
        /\ participants[u].flowStatus # SUBMITTED_CONFIRM_TIME
        /\ submit_time_confirmation(u, d, "raise")
TimeDecline == \E u \in Users : submit_time_decline(u)
LeaveFlowStatus == \E u \in DOMAIN participants : update_flow_status(u, "declined")
LeavePoll == meetup_options = << >> /\ CreatePoll

NextLeave ==
    LeavePoll \/ LeaveRespond \/ LeaveVote \/ LeaveConfirm \/ TimeDecline
    \/ LeaveFlowStatus

\* every request that was made is served: a participant who has yet to answer,
\* vote or confirm does so; nobody has to leave
SpecLeave ==
    /\ InitVote
    /\ [][NextLeave]_vars
    /\ WF_vars(LeavePoll) /\ WF_vars(LeaveRespond)
    /\ WF_vars(LeaveVote) /\ WF_vars(LeaveConfirm)

\* some participant of the hangout has left
someone_left == DOMAIN participants # hangout.invitee_ids \cup {hangout.creator_id}

\* C32: once a participant was removed by submit_time_decline or by
\* update_flow_status "declined", the quorum tests compare against the
\* remaining accepted participants only: a vote completes the poll exactly
\* when every remaining accepted participant has voted, and a confirmation
\* fires the gate exactly when every remaining accepted participant has
\* confirmed
C32_QuorumOverRemainingAccepted ==
    [][ someone_left =>
        /\ (result'.op = "vote" /\ result'.resp = "200 added your vote")
           => (hangout'.scheduled_time # NULL
               <=> /\ accepted_rows(participants') # {}
                   /\ accepted_have_voted(participants', meetup_votes'))
        /\ (result'.op = "submit_time_confirmation" /\ participants' # participants)
           => (algo_count' > algo_count
               <=> /\ accepted_rows(participants) # {}
                   /\ \A u \in accepted_rows(participants) :
                          \/ participants[u].flowStatus = SUBMITTED_CONFIRM_TIME
                          \/ participants'[u].flowStatus = SUBMITTED_CONFIRM_TIME )
      ]_vars

\* C33: when an address of the run does not resolve to a coordinate, the run
\* fails with an error that names that address, and neither the isochrone
\* request nor the venue request is made
C33_UnresolvedAddressEndsRun ==
    [][ (result'.op = "getRecommendations" /\ result'.geocoder = "no feature")
        => /\ result'.resp = "raise UnexpectedError"
           /\ result'.message = result'.no_feature \o " did not map to a geocode"
           /\ result'.calls = << "geocoder" >>
           /\ result'.isochrones = << >>
           /\ result'.provider = "not called" ]_vars

\* a run of three participants whose last address did not resolve
C33_Witness ==
    /\ result.op = "getRecommendations"
    /\ result.geocoder = "no feature"
    /\ result.no_feature = "home of bob"
    /\ result.message = "home of bob did not map to a geocode"
    /\ result.calls = << "geocoder" >>
    /\ Len(input_rows(participants)) = 3

-----------------------------------------------------------------------------
(* SpecNotify: send_notification_bulk over the receiver lists of its callers *)

\* a user is sent at most this many notifications of a type
MaxNotifications == 2

\* the call's arguments and how it ended
BulkResponse(sender, receivers, noti_type, sent) ==
    [ op |-> "send_notification_bulk", recast |-> FALSE,
      resp |-> IF sent.raised = NULL THEN "200 sent notifications"
               ELSE "raise " \o sent.raised,
      sender |-> sender, receivers |-> receivers, noti_type |-> noti_type ]

\* the creator's bulk notifications: the invitees (new_hangout does not keep
\* the creator out of invitee_ids) or the accepted participants (start_algo)
SendNotificationBulk ==
    \E receivers \in SUBSET Users, noti_type \in NotificationTypes \cup {"select-places"} :
        LET sent == send_notification_bulk(notifications, creator_id, receivers, noti_type)
        IN  /\ \A r \in receivers : notifications[<<r, noti_type>>] < MaxNotifications
            /\ notifications' = sent.table
            /\ result' = BulkResponse(creator_id, receivers, noti_type, sent)
            /\ UNCHANGED <<hangout, participants, meetup_options, meetup_votes,
                           recommendations, first_poll, resolved_count, algo_count,
                           procs>>

SpecNotify == InitVote /\ [][SendNotificationBulk]_vars

\* C34: a bulk notification whose sender is among the receivers is rejected
\* with an error and no notification row is inserted for any receiver
C34_SenderAmongReceiversRejected ==
    [][ (result'.op = "send_notification_bulk" /\ result'.sender \in result'.receivers)
        => /\ result'.resp = "raise ValueError"
           /\ notifications' = notifications ]_vars

\* the creator's notification to the creator and an invitee was rejected, and
\* the invitee has no row of it
C34_Witness ==
    /\ result.op = "send_notification_bulk"
    /\ result.receivers = {creator_id, "ann"}
    /\ result.sender = creator_id
    /\ result.resp = "raise ValueError"
    /\ notifications[<<"ann", result.noti_type>>] = 0

\* C35: when a submit_time_confirmation fires the gate and the recommendation
\* run succeeds, the call returns 200 "started algorithm", every accepted
\* participant's flow status becomes pending-location-vote and every accepted
\* participant is sent the select-places notification
C35_GateStartsLocationPhase ==
    [][ \A u \in Users, d \in ConfirmInputs :
          (submit_time_confirmation(u, d, "places") /\ algo_count' > algo_count)
          => /\ result'.resp = "200 confirmed participant and started algorithm"
             /\ \A a \in accepted_rows(participants') :
                   /\ participants'[a].flowStatus = PENDING_LOCATION_VOTE
                   /\ notifications'[<<a, "select-places">>]
                         > notifications[<<a, "select-places">>] ]_vars

\* C40: when the recommendation run raises in the submit_time_confirmation
\* that fires the gate, the call ends in an error, no flow status becomes
\* pending-location-vote, no notification is sent, no recommendation row is
\* written, and the hangout stays determining-location with every accepted
\* participant still counted as confirmed, so that a resubmission fires the
\* gate again
C40_FailedRunLeavesGateOpen ==
    [][ \A u \in Users, d \in ConfirmInputs :
          (submit_time_confirmation(u, d, "raise") /\ algo_count' > algo_count)
          => /\ result'.resp = "raise UnexpectedError"
             /\ \A a \in DOMAIN participants' :
                   participants'[a].flowStatus = PENDING_LOCATION_VOTE
                   => participants[a].flowStatus = PENDING_LOCATION_VOTE
             /\ notifications' = notifications
             /\ recommendations' = recommendations
             /\ hangout'.status = DETERMINING_LOCATION
             /\ check_all_submitted(participants', SUBMITTED_CONFIRM_TIME) ]_vars

\* the run raised twice: a confirmation after the first failure fired the
\* gate again, and still nothing of the location phase is written
C40_Witness ==
    /\ result.op = "submit_time_confirmation"
    /\ result.resp = "raise UnexpectedError"
    /\ algo_count = 2
    /\ recommendations = << >>
    /\ hangout.status = DETERMINING_LOCATION
    /\ \A a \in DOMAIN participants : participants[a].flowStatus # PENDING_LOCATION_VOTE
    /\ \A k \in DOMAIN notifications : k[2] = "select-places" => notifications[k] = 0

\* a step that changes nothing but the votes and the flow status of one user
only_own_vote ==
    \E v \in DOMAIN participants :
        /\ hangout' = hangout
        /\ meetup_options' = meetup_options
        /\ participants' = [ participants EXCEPT ![v].flowStatus = SUBMITTED_TIME_VOTE ]
        /\ \A k \in DOMAIN meetup_votes : k[1] # v => meetup_votes'[k] = meetup_votes[k]

\* C36: a successful vote after which some accepted participant has still not
\* voted changes only the voter's vote rows and the voter's flow status; the
\* hangout row, the option rows and the other participants' rows and votes
\* are unchanged
C36_VoteBelowQuorumTouchesVoterOnly ==
    [][ ( /\ result'.op = "vote"
          /\ result'.resp = "200 added your vote"
          /\ ~accepted_have_voted(participants', meetup_votes') )
        => only_own_vote ]_vars

\* the same frame for the votes that miss the handler's own completion test
\* (as many voters as invitee_ids): it holds in SpecWinner
VoteBelowCountTouchesVoterOnly ==
    [][ ( /\ result'.op = "vote"
          /\ result'.resp = "200 added your vote"
          /\ ~all_voted(meetup_votes', hangout) )
        => only_own_vote ]_vars

\* C37: the users with a stored vote are accepted participants of the hangout
C37_VotersAreAcceptedParticipants ==
    unique_users(meetup_votes) \subseteq accepted_rows(participants)

\* C38: no step changes the flow status of a participant whose invite is not
\* accepted; the updates of set_scheduled_time and start_algo reach accepted
\* rows only
C38_FlowStatusOfAcceptedOnly ==
    [][ \A u \in DOMAIN participants \cap DOMAIN participants' :
          participants'[u].status # ACCEPTED
          => participants'[u].flowStatus = participants[u].flowStatus ]_vars

\* the part of C38 about the update of every row at once: it is violated too,
\* at the vote that resolves the poll
BulkUpdateOfAcceptedOnly ==
    [][ \A u \in DOMAIN participants \cap DOMAIN participants' :
          participants'[u].status # ACCEPTED
          => participants'[u].flowStatus \notin
                {PENDING_CONFIRM_TIME, PENDING_LOCATION_VOTE} \ {participants[u].flowStatus}
      ]_vars

\* the last step removed a participant
removal == "removed" \in DOMAIN result

\* every participant left is accepted
all_accepted == DOMAIN participants # {} /\ accepted_rows(participants) = DOMAIN participants

\* the poll is open, the participant who was just removed had not voted, and
\* every participant left is accepted and has voted
voted_but_for_leaver ==
    /\ removal
    /\ meetup_options # << >>
    /\ hangout.scheduled_time = NULL
    /\ result.user \notin unique_users(meetup_votes)
    /\ all_accepted
    /\ accepted_have_voted(participants, meetup_votes)

\* the time is to be confirmed, the participant who was just removed had not
\* confirmed, and every participant left is accepted and has confirmed
confirmed_but_for_leaver ==
    /\ removal
    /\ hangout.status = CONFIRM_TIME
    /\ result.removed.flowStatus # SUBMITTED_CONFIRM_TIME
    /\ all_accepted
    /\ \A u \in DOMAIN participants : participants[u].flowStatus = SUBMITTED_CONFIRM_TIME

\* C39: when the only participant who had not submitted for the phase is
\* removed, the phase advances without another submission: the poll is
\* resolved, or the algorithm is started (unless everybody leaves)
C39_PhaseAdvancesAfterRemoval ==
    /\ voted_but_for_leaver
          ~> (hangout.scheduled_time # NULL \/ DOMAIN participants = {})
    /\ confirmed_but_for_leaver
          ~> (hangout.status = DETERMINING_LOCATION \/ DOMAIN participants = {})

====
